---- MODULE Spec2Model ----
(***************************************************************************)
(* Model of the RustPython command-line launcher (src/src/main.rs):        *)
(* settings resolution, the execution-mode dispatcher, script resolution   *)
(* and the interactive shell loop.                                         *)
(*                                                                         *)
(* Representation.  A Rust string (String, &str, OsString, PathBuf) is a   *)
(* sequence of atoms; an atom is a TLA+ string standing for one character  *)
(* or for an indivisible run of characters ("__main__.py").  The empty     *)
(* string is <<>>.  An Option is a sequence of length at most one: NoneV   *)
(* is <<>> and Some(x) is <<x>>.  Enum variants and tags are TLA+ strings. *)
(***************************************************************************)
EXTENDS Integers, Sequences, FiniteSets, TLC

VARIABLES
    pc,          \* position of the process: "main", "startup", "dispatch", "read",
                 \* "shutdown", "handle", "exited"
    matches,     \* ArgMatches produced by parse_arguments
    env,         \* snapshot of the process environment
    buildpath,   \* option_env!("BUILDTIME_RUSTPYTHONPATH")
    fs,          \* the file system: components of a path -> [kind, source, readable]
    settings,    \* PySettings returned by create_settings
    sys_path,    \* sys.path of the VirtualMachine
    scope,       \* globals of the __main__ scope: the bindings of "__file__" and "_"
    invoked,     \* strategies the dispatcher has called, in order
    executed,    \* sources handed to vm.run_code_obj, in order
    errlog,      \* messages written with error!/eprintln!, in order
    reported,    \* exceptions rendered by print_exception, in order
    res,         \* the PyResult run_rustpython returned to main
    exitCode,    \* Running while the process runs, then its exit status
    input,       \* run_shell: the accumulated input buffer
    continuing,  \* run_shell: TRUE in Continuation, FALSE in Fresh
    history,     \* run_shell: entries of the line editor's history: those loaded
                 \* from the file, then those given to add_history_entry
    histfile,    \* the history file: NoneV when missing, else Some(its entries)
    saves,       \* number of repl.save_history calls made so far
    iter,        \* number of repl.readline calls made so far
    last         \* record of the latest loop iteration: what was read, the state
                 \* and buffer before it, what the collaborators answered, what
                 \* it submitted, executed and reported

vars == << pc, matches, env, buildpath, fs, settings, sys_path, scope, invoked,
           executed, errlog, reported, res, exitCode, input, continuing, history,
           histfile, saves, iter, last >>

NoneV == <<>>

Some(x) == <<x>>

IsSome(o) == o # <<>>

Unwrap(o) == o[1]

\* a string made of one atom
T(a) == <<a>>

Running == -1

\* exit status of a Rust process that panicked
PanicStatus == 101

----------------------------------------------------------------------------
(* Bounds of the model *)

MaxIter == 3        \* readline calls per session
MaxCount == 2       \* repetitions of -O / -v on the command line

----------------------------------------------------------------------------
(* Generic helpers *)

RECURSIVE TakeWhileNot(_, _)
\* the longest prefix of s that does not contain the separator c
TakeWhileNot(s, c) ==
    IF s = <<>> \/ Head(s) = c THEN <<>>
    ELSE <<Head(s)>> \o TakeWhileNot(Tail(s), c)

RECURSIVE DropThrough(_, _)
\* what follows the first separator c of s (s must contain c)
DropThrough(s, c) ==
    IF Head(s) = c THEN Tail(s) ELSE DropThrough(Tail(s), c)

Contains(s, c) == \E i \in 1..Len(s) : s[i] = c

Front(s) == SubSeq(s, 1, Len(s) - 1)

Last(s) == s[Len(s)]

\* Vec::insert(i, x) / list.insert(i, x) for 0 <= i <= len
InsertAt(s, i, x) == SubSeq(s, 1, i) \o <<x>> \o SubSeq(s, i + 1, Len(s))

\* Iterator::skip(1)
Skip1(s) == IF s = <<>> THEN <<>> ELSE Tail(s)

----------------------------------------------------------------------------
(* Environment values and their conversions *)

Digits == <<"0", "1", "2", "3", "4", "5", "6", "7", "8", "9">>

IsDigit(ch) == \E i \in 1..10 : Digits[i] = ch

DigitVal(ch) == (CHOOSE i \in 1..10 : Digits[i] = ch) - 1

RECURSIVE DecimalValue(_)
DecimalValue(s) ==
    IF s = <<>> THEN 0 ELSE 10 * DecimalValue(Front(s)) + DigitVal(Last(s))

\* the largest u8
U8Max == 255

\* u8::from_str: an optional '+', then one or more digits, value at most 255
u8_from_str(s) ==
    LET body == IF s # <<>> /\ Head(s) = "+" THEN Tail(s) ELSE s
    IN  IF body = <<>> \/ (\E i \in 1..Len(body) : ~IsDigit(body[i]))
        THEN [ok |-> FALSE, value |-> 0]
        ELSE IF DecimalValue(body) > U8Max
             THEN [ok |-> FALSE, value |-> 0]
             ELSE [ok |-> TRUE, value |-> DecimalValue(body)]

\* the character standing for a byte sequence that is not valid unicode
BadByte == "\\xff"

IsUnicode(s) == ~Contains(s, BadByte)

\* env::var(name): Err when the variable is unset or not valid unicode
env_var(e, name) ==
    IF ~IsSome(e[name]) \/ ~IsUnicode(Unwrap(e[name]))
    THEN [ok |-> FALSE, value |-> <<>>]
    ELSE [ok |-> TRUE, value |-> Unwrap(e[name])]

\* env::var_os(name).is_some()
env_is_some(e, name) == IsSome(e[name])

\* a reading in which a value that does not parse is an error
get_env_var_value_or_error(e, name) ==
    LET v == env_var(e, name)
    IN  IF ~v.ok \/ ~u8_from_str(v.value).ok THEN [ok |-> FALSE, value |-> 0]
        ELSE [ok |-> TRUE, value |-> u8_from_str(v.value).value]

\* get_env_var_value: the variable as an integer, 1 when it does not parse
get_env_var_value(e, name) ==
    LET v == env_var(e, name)
    IN  IF ~v.ok THEN [ok |-> FALSE, value |-> 0]
        ELSE IF u8_from_str(v.value).ok
             THEN [ok |-> TRUE, value |-> u8_from_str(v.value).value]
             ELSE [ok |-> TRUE, value |-> 1]

RECURSIVE split_paths(_)
\* env::split_paths on unix: the segments between ':' separators
split_paths(s) ==
    IF Contains(s, ":")
    THEN <<TakeWhileNot(s, ":")>> \o split_paths(DropThrough(s, ":"))
    ELSE <<s>>

\* get_paths: the segments of a path-list variable; panics on invalid unicode
get_paths(e, name) ==
    IF ~IsSome(e[name]) THEN [panic |-> FALSE, paths |-> <<>>]
    ELSE LET segs == split_paths(Unwrap(e[name]))
         IN  IF \E i \in 1..Len(segs) : ~IsUnicode(segs[i])
             THEN [panic |-> TRUE, paths |-> <<>>]
             ELSE [panic |-> FALSE, paths |-> segs]

----------------------------------------------------------------------------
(* ArgMatches *)

\* ArgMatches::values_of(name): NoneV when the argument was not given, else
\* Some(the values); min_values(1) makes the values non-empty
values_of(mt, name) == IF mt[name] = <<>> THEN NoneV ELSE Some(mt[name])

\* ArgMatches::value_of(name): the first value, NoneV when not given
value_of(mt, name) == IF mt[name] = <<>> THEN NoneV ELSE Some(mt[name][1])

\* ArgMatches::is_present for a flag; counted flags are present when given at least once
is_present(mt, name) ==
    IF name \in {"optimize", "verbose"} THEN mt[name] > 0 ELSE mt[name]

\* ArgMatches::occurrences_of for -O / -v
occurrences_of(mt, name) == mt[name]

----------------------------------------------------------------------------
(* create_settings *)

\* argv as create_settings resolves it
settings_argv(mt) ==
    IF IsSome(values_of(mt, "script")) THEN Unwrap(values_of(mt, "script"))
    ELSE IF IsSome(values_of(mt, "m"))
         THEN <<T("PLACEHOLDER")>> \o Skip1(Unwrap(values_of(mt, "m")))
    ELSE IF IsSome(values_of(mt, "c"))
         THEN <<T("-c")>> \o Skip1(Unwrap(values_of(mt, "c")))
    ELSE <<>>

\* a resolution in which the environment variable is consulted before the flag
settings_level_environment_first(mt, e, flag, variable) ==
    IF ~is_present(mt, "ignore-environment") /\ get_env_var_value(e, variable).ok
    THEN get_env_var_value(e, variable).value
    ELSE IF is_present(mt, flag) THEN occurrences_of(mt, flag)
         ELSE 0

\* settings.optimize / settings.verbose
settings_level(mt, e, flag, variable) ==
    IF is_present(mt, flag) THEN occurrences_of(mt, flag)
    ELSE IF ~is_present(mt, "ignore-environment") /\ get_env_var_value(e, variable).ok
         THEN get_env_var_value(e, variable).value
         ELSE 0

\* a resolution in which -E does not keep the environment out
settings_flag_reads_environment(mt, e, flag, variable) ==
    is_present(mt, flag) \/ env_is_some(e, variable)

\* settings.debug, inspect, no_user_site, dont_write_bytecode
settings_flag(mt, e, flag, variable) ==
    is_present(mt, flag)
        \/ (~is_present(mt, "ignore-environment") /\ env_is_some(e, variable))

\* a path list in which PYTHONPATH comes before RUSTPYTHONPATH
settings_path_list_general_first(mt, e) ==
    IF is_present(mt, "ignore-environment") THEN << <<>> >>
    ELSE << <<>> >> \o get_paths(e, "PYTHONPATH").paths \o get_paths(e, "RUSTPYTHONPATH").paths

\* settings.path_list
settings_path_list(mt, e) ==
    IF is_present(mt, "ignore-environment") THEN << <<>> >>
    ELSE << <<>> >> \o get_paths(e, "RUSTPYTHONPATH").paths \o get_paths(e, "PYTHONPATH").paths

\* `matches.occurrences_of(flag).try_into().unwrap()`: the count as a u8;
\* the unwrap panics when the count does not fit
level_overflows(mt, flag) == is_present(mt, flag) /\ occurrences_of(mt, flag) > U8Max

\* TRUE when create_settings panics instead of returning
create_settings_panics(mt, e) ==
    \/ ~is_present(mt, "ignore-environment")
          /\ (get_paths(e, "RUSTPYTHONPATH").panic \/ get_paths(e, "PYTHONPATH").panic)
    \/ level_overflows(mt, "optimize")
    \/ level_overflows(mt, "verbose")

create_settings(mt, e) ==
    [ ignore_environment  |-> is_present(mt, "ignore-environment"),
      path_list           |-> settings_path_list(mt, e),
      debug               |-> settings_flag(mt, e, "debug", "PYTHONDEBUG"),
      inspect             |-> settings_flag(mt, e, "inspect", "PYTHONINSPECT"),
      optimize            |-> settings_level(mt, e, "optimize", "PYTHONOPTIMIZE"),
      verbose             |-> settings_level(mt, e, "verbose", "PYTHONVERBOSE"),
      no_site             |-> is_present(mt, "no-site"),
      no_user_site        |-> settings_flag(mt, e, "no-user-site", "PYTHONNOUSERSITE"),
      quiet               |-> is_present(mt, "quiet"),
      dont_write_bytecode |-> settings_flag(mt, e, "dont-write-bytecode", "PYTHONDONTWRITEBYTECODE"),
      argv                |-> settings_argv(mt) ]

----------------------------------------------------------------------------
(* Paths and the file system *)

Sep == "/"

RECURSIVE StripSeps(_)
\* a path string without its trailing separators
StripSeps(p) == IF p # <<>> /\ Last(p) = Sep THEN StripSeps(Front(p)) ELSE p

RECURSIVE Components(_)
\* Path::components: the names between separators; repeated and trailing
\* separators name nothing
Components(p) ==
    IF p = <<>> THEN <<>>
    ELSE IF Head(p) = Sep THEN Components(Tail(p))
    ELSE <<TakeWhileNot(p, Sep)>>
            \o (IF Contains(p, Sep) THEN Components(DropThrough(p, Sep)) ELSE <<>>)

RECURSIVE DropLastName(_)
\* a path string without the atoms of its last name
DropLastName(p) == IF p # <<>> /\ Last(p) # Sep THEN DropLastName(Front(p)) ELSE p

\* PathBuf::from(&str): a PathBuf holds the string it was made from
PathBuf_from(str) == str

\* Path::to_str
to_str(p) == p

\* Path::join with a relative name
path_join(p, name) ==
    IF p = <<>> THEN name
    ELSE IF Last(p) = Sep THEN p \o name
    ELSE p \o <<Sep>> \o name

\* Path::parent: NoneV for the empty path, else the path without its last component
path_parent(p) ==
    IF Components(p) = <<>> THEN NoneV
    ELSE Some(StripSeps(DropLastName(StripSeps(p))))

\* what the file system holds at a path; a name with a trailing separator
\* only ever names a directory
Stat(fsys, p) ==
    IF Components(p) \in DOMAIN fsys
          /\ ~(p # <<>> /\ Last(p) = Sep /\ fsys[Components(p)].kind = "file")
    THEN fsys[Components(p)]
    ELSE [kind |-> "none", source |-> <<>>, readable |-> FALSE]

\* Path::is_file
is_file(fsys, p) == Stat(fsys, p).kind = "file"

\* Path::is_dir
is_dir(fsys, p) == Stat(fsys, p).kind = "dir"

\* util::read_file
read_file(fsys, p) ==
    IF is_file(fsys, p) /\ Stat(fsys, p).readable
    THEN [ok |-> TRUE, source |-> Stat(fsys, p).source]
    ELSE [ok |-> FALSE, source |-> <<>>]

----------------------------------------------------------------------------
(* The collaborator runtime on whole programs (compile::Mode::Exec) *)

SrcOk == T("x = 1")

SrcSyntax == T("x = )")

SrcRaise == T("raise E")

Sources == {SrcOk, SrcSyntax, SrcRaise}

\* vm.compile(source, Mode::Exec, path): Err for a program that does not parse
vm_compile_exec(source) == IF source = SrcSyntax THEN "Err" ELSE "Ok"

\* vm.run_code_obj on a compiled program: Err when it raises
vm_run_exec(source) == IF source = SrcRaise THEN "Err" ELSE "Ok"

----------------------------------------------------------------------------
(* _run_string, run_command, run_script *)

NoExc == "none"

\* _run_string: compile, bind __file__, run
run_string(sc, source, source_path) ==
    IF vm_compile_exec(source) = "Err"
    THEN [result |-> "Err", exc |-> "SyntaxError", scope |-> sc, executed |-> <<>>]
    ELSE [result   |-> vm_run_exec(source),
          exc      |-> IF vm_run_exec(source) = "Err" THEN "Exception" ELSE NoExc,
          scope    |-> [sc EXCEPT !.file = Some(source_path)],
          executed |-> <<source>>]

\* run_command
run_command(sc, source) == run_string(sc, source, T("<stdin>"))

MainFile == T("__main__.py")

MsgNoMain(p) == T("can't find '__main__' module in '") \o to_str(p) \o T("'")

MsgNoFile(p) == T("can't open file '") \o to_str(p) \o T("': No such file or directory")

MsgReadFailed(p) == T("Failed reading file '") \o to_str(p) \o T("'")

\* resolve_script without the `else if file_path.is_dir()` arm
resolve_script_without_dir_arm(fsys, script_file) ==
    LET file_path == PathBuf_from(script_file)
    IN  IF is_file(fsys, file_path)
        THEN [exit |-> FALSE, file_path |-> file_path, msg |-> <<>>]
        ELSE [exit |-> TRUE, file_path |-> <<>>, msg |-> MsgNoFile(file_path)]

\* resolve_script that goes on with the directory itself instead of its
\* __main__.py
resolve_script_keeps_directory(fsys, script_file) ==
    LET file_path == PathBuf_from(script_file)
        main_file_path == path_join(file_path, MainFile)
    IN  IF is_file(fsys, file_path)
        THEN [exit |-> FALSE, file_path |-> file_path, msg |-> <<>>]
        ELSE IF is_dir(fsys, file_path)
        THEN IF is_file(fsys, main_file_path)
             THEN [exit |-> FALSE, file_path |-> file_path, msg |-> <<>>]
             ELSE [exit |-> TRUE, file_path |-> <<>>, msg |-> MsgNoMain(file_path)]
        ELSE [exit |-> TRUE, file_path |-> <<>>, msg |-> MsgNoFile(file_path)]

\* the first part of run_script: the file to run, or the fatal message
resolve_script(fsys, script_file) ==
    LET file_path == PathBuf_from(script_file)
        main_file_path == path_join(file_path, MainFile)
    IN  IF is_file(fsys, file_path)
        THEN [exit |-> FALSE, file_path |-> file_path, msg |-> <<>>]
        ELSE IF is_dir(fsys, file_path)
        THEN IF is_file(fsys, main_file_path)
             THEN [exit |-> FALSE, file_path |-> main_file_path, msg |-> <<>>]
             ELSE [exit |-> TRUE, file_path |-> <<>>, msg |-> MsgNoMain(file_path)]
        ELSE [exit |-> TRUE, file_path |-> <<>>, msg |-> MsgNoFile(file_path)]

\* run_script in which the file is read first and its directory is put on
\* sys.path only once the source is there
run_script_reads_before_insert(fsys, spath, sc, script_file) ==
    LET r == resolve_script(fsys, script_file)
    IN  IF r.exit
        THEN [exit |-> TRUE, msg |-> r.msg, file_path |-> <<>>, sys_path |-> spath,
              scope |-> sc, executed |-> <<>>, result |-> "none", exc |-> NoExc]
        ELSE LET dir == to_str(Unwrap(path_parent(r.file_path)))
                 inserted == InsertAt(spath, 0, dir)
                 rd == read_file(fsys, r.file_path)
                 run == run_string(sc, rd.source, to_str(r.file_path))
             IN  IF rd.ok
                 THEN [exit |-> FALSE, msg |-> <<>>, file_path |-> r.file_path,
                       sys_path |-> inserted, scope |-> run.scope,
                       executed |-> run.executed, result |-> run.result, exc |-> run.exc]
                 ELSE [exit |-> TRUE, msg |-> MsgReadFailed(r.file_path),
                       file_path |-> r.file_path, sys_path |-> spath, scope |-> sc,
                       executed |-> <<>>, result |-> "none", exc |-> NoExc]

\* run_script: exit is TRUE when it ends the process with status 1; otherwise
\* result is the PyResult it returns
run_script(fsys, spath, sc, script_file) ==
    LET r == resolve_script(fsys, script_file)
    IN  IF r.exit
        THEN [exit |-> TRUE, msg |-> r.msg, file_path |-> <<>>, sys_path |-> spath,
              scope |-> sc, executed |-> <<>>, result |-> "none", exc |-> NoExc]
        ELSE LET dir == to_str(Unwrap(path_parent(r.file_path)))
                 inserted == InsertAt(spath, 0, dir)
                 rd == read_file(fsys, r.file_path)
                 run == run_string(sc, rd.source, to_str(r.file_path))
             IN  IF rd.ok
                 THEN [exit |-> FALSE, msg |-> <<>>, file_path |-> r.file_path,
                       sys_path |-> inserted, scope |-> run.scope,
                       executed |-> run.executed, result |-> run.result, exc |-> run.exc]
                 ELSE [exit |-> TRUE, msg |-> MsgReadFailed(r.file_path),
                       file_path |-> r.file_path, sys_path |-> inserted, scope |-> sc,
                       executed |-> <<>>, result |-> "none", exc |-> NoExc]

----------------------------------------------------------------------------
(* shell_exec *)

\* outcomes of vm.compile(source, Mode::Single, ..): a code object, the parse
\* error EOF, or any other compile error
CompileOutcomes == {"Code", "EOF", "Other"}

\* outcomes of vm.run_code_obj on a single statement: None, a value, or an exception
RunOutcomes == {"None", "2", "Exception"}

\* the statement of the specification's example
OnePlusOne == <<"1 + 1">>

\* what the compiler and the interpreter can answer for a source in mode
\* Single: the expression statement "1 + 1" compiles and evaluates to 2, the
\* empty statement compiles and evaluates to None, any other source can have
\* any of the outcomes
vm_single(source) ==
    IF source = OnePlusOne \o <<"\n">> THEN { <<"Code", "2">> }
    ELSE IF source = <<"\n">> THEN { <<"Code", "None">> }
    ELSE CompileOutcomes \X RunOutcomes

\* shell_exec without the arm for the parse error EOF: every compile error
\* becomes a syntax error
shell_exec_without_eof_arm(sc, source, compiled, ran) ==
    IF compiled = "Code"
    THEN IF ran = "Exception"
         THEN [result |-> "PyErr", exc |-> "Exception", scope |-> sc,
               executed |-> <<source>>]
         ELSE [result |-> "Ok", exc |-> NoExc,
               scope |-> IF ran # "None" THEN [sc EXCEPT !.underscore = Some(ran)] ELSE sc,
               executed |-> <<source>>]
    ELSE [result |-> "PyErr", exc |-> "SyntaxError", scope |-> sc, executed |-> <<>>]

\* shell_exec without the `!vm.is_none(&value)` test: every value is bound to "_"
shell_exec_binds_none(sc, source, compiled, ran) ==
    IF compiled = "Code"
    THEN IF ran = "Exception"
         THEN [result |-> "PyErr", exc |-> "Exception", scope |-> sc,
               executed |-> <<source>>]
         ELSE [result |-> "Ok", exc |-> NoExc,
               scope |-> [sc EXCEPT !.underscore = Some(ran)],
               executed |-> <<source>>]
    ELSE IF compiled = "EOF"
    THEN [result |-> "Continue", exc |-> NoExc, scope |-> sc, executed |-> <<>>]
    ELSE [result |-> "PyErr", exc |-> "SyntaxError", scope |-> sc, executed |-> <<>>]

\* shell_exec, given what the compiler and the interpreter answer
shell_exec(sc, source, compiled, ran) ==
    IF compiled = "Code"
    THEN IF ran = "Exception"
         THEN [result |-> "PyErr", exc |-> "Exception", scope |-> sc,
               executed |-> <<source>>]
         ELSE [result |-> "Ok", exc |-> NoExc,
               scope |-> IF ran # "None" THEN [sc EXCEPT !.underscore = Some(ran)] ELSE sc,
               executed |-> <<source>>]
    ELSE IF compiled = "EOF"
    THEN [result |-> "Continue", exc |-> NoExc, scope |-> sc, executed |-> <<>>]
    ELSE [result |-> "PyErr", exc |-> "SyntaxError", scope |-> sc, executed |-> <<>>]

----------------------------------------------------------------------------
(* The loop body of run_shell *)

IsWhitespace(ch) == ch \in {" ", "\t"}

\* a history entry that keeps the trailing whitespace of the line
trim_end_keeps_whitespace(line) == line

RECURSIVE trim_end(_)
\* str::trim_end
trim_end(line) ==
    IF line # <<>> /\ IsWhitespace(Last(line)) THEN trim_end(Front(line)) ELSE line

\* the Ok(line) arm in which `continuing = true` is skipped once an empty line
\* has stopped the continuation: the buffer is dropped and the state is Fresh
read_line_step_stop_is_final(inp, cont, sc, line, compiled, ran) ==
    LET stop_continuing == line = <<>>
        buf == (IF inp = <<>> THEN line ELSE inp \o line) \o <<"\n">>
        r == shell_exec(sc, buf, compiled, ran)
        again == r.result = "Continue" /\ ~(cont /\ stop_continuing)
    IN  IF cont /\ ~stop_continuing
        THEN [input |-> buf, continuing |-> cont, scope |-> sc, submitted |-> NoneV,
              result |-> "none", exc |-> NoExc, executed |-> <<>>]
        ELSE [input |-> IF again THEN buf ELSE <<>>, continuing |-> again,
              scope |-> r.scope, submitted |-> Some(buf), result |-> r.result,
              exc |-> r.exc, executed |-> r.executed]

\* the Ok(line) arm without the `if continuing { .. continue }` block: every
\* line is compiled at once
read_line_step_always_compiles(inp, cont, sc, line, compiled, ran) ==
    LET buf == (IF inp = <<>> THEN line ELSE inp \o line) \o <<"\n">>
        r == shell_exec(sc, buf, compiled, ran)
    IN  [input |-> IF r.result = "Continue" THEN buf ELSE <<>>,
         continuing |-> r.result = "Continue", scope |-> r.scope,
         submitted |-> Some(buf), result |-> r.result, exc |-> r.exc,
         executed |-> r.executed]

\* the Ok(line) arm without `input.clear()` in the PyErr arm
read_line_step_keeps_buffer(inp, cont, sc, line, compiled, ran) ==
    LET stop_continuing == line = <<>>
        buf == (IF inp = <<>> THEN line ELSE inp \o line) \o <<"\n">>
        r == shell_exec(sc, buf, compiled, ran)
    IN  IF cont /\ ~stop_continuing
        THEN [input |-> buf, continuing |-> cont, scope |-> sc, submitted |-> NoneV,
              result |-> "none", exc |-> NoExc, executed |-> <<>>]
        ELSE [input |-> IF r.result = "Ok" THEN <<>> ELSE buf,
              continuing |-> r.result = "Continue", scope |-> r.scope,
              submitted |-> Some(buf), result |-> r.result, exc |-> r.exc,
              executed |-> r.executed]

\* the Ok(line) arm without `input.clear()` in the Ok arm of shell_exec's
\* result: the executed source stays in the buffer
read_line_step_ok_keeps_buffer(inp, cont, sc, line, compiled, ran) ==
    LET stop_continuing == line = <<>>
        buf == (IF inp = <<>> THEN line ELSE inp \o line) \o <<"\n">>
        r == shell_exec(sc, buf, compiled, ran)
    IN  IF cont /\ ~stop_continuing
        THEN [input |-> buf, continuing |-> cont, scope |-> sc, submitted |-> NoneV,
              result |-> "none", exc |-> NoExc, executed |-> <<>>]
        ELSE [input |-> IF r.result = "PyErr" THEN <<>> ELSE buf,
              continuing |-> r.result = "Continue", scope |-> r.scope,
              submitted |-> Some(buf), result |-> r.result, exc |-> r.exc,
              executed |-> r.executed]

\* the Ok(line) arm of the match on repl.readline, after the history entry:
\* the new buffer and state, what was submitted to shell_exec (NoneV when
\* the iteration ended in `continue`) and the iteration's result
read_line_step(inp, cont, sc, line, compiled, ran) ==
    LET stop_continuing == line = <<>>
        buf == (IF inp = <<>> THEN line ELSE inp \o line) \o <<"\n">>
        r == shell_exec(sc, buf, compiled, ran)
    IN  IF cont /\ ~stop_continuing
        THEN [input |-> buf, continuing |-> cont, scope |-> sc, submitted |-> NoneV,
              result |-> "none", exc |-> NoExc, executed |-> <<>>]
        ELSE [input      |-> IF r.result = "Continue" THEN buf ELSE <<>>,
              continuing |-> r.result = "Continue",
              scope      |-> r.scope,
              submitted  |-> Some(buf),
              result     |-> r.result,
              exc        |-> r.exc,
              executed   |-> r.executed]

\* the Interrupted arm without `continuing = false; input.clear()`
read_interrupted_step_keeps_state(inp, cont, sc) ==
    [input |-> inp, continuing |-> cont, scope |-> sc, submitted |-> NoneV,
     result |-> "none", exc |-> "KeyboardInterrupt", executed |-> <<>>]

\* an Interrupted arm that also drops the binding of "_"
read_interrupted_step_resets_scope(inp, cont, sc) ==
    [input |-> <<>>, continuing |-> FALSE, scope |-> [sc EXCEPT !.underscore = NoneV],
     submitted |-> NoneV, result |-> "none", exc |-> "KeyboardInterrupt",
     executed |-> <<>>]

\* the Err(ReadlineError::Interrupted) arm
read_interrupted_step(inp, cont, sc) ==
    [input |-> <<>>, continuing |-> FALSE, scope |-> sc, submitted |-> NoneV,
     result |-> "none", exc |-> "KeyboardInterrupt", executed |-> <<>>]

\* `if let Err(exc) = result { print_exception(vm, &exc) }`
print_if_err(rep, exc) == IF exc # NoExc THEN Append(rep, exc) ELSE rep

\* a loop that an interrupt ends too
loop_control_interrupt_breaks(event) ==
    IF event \in {"eof", "error", "interrupt"} THEN "break" ELSE "next"

\* what the arm of the match on repl.readline does to the loop: the arms of
\* Eof and of the other read errors break, the others go on to the next read
loop_control(event) == IF event \in {"eof", "error"} THEN "break" ELSE "next"

\* the position after an iteration
after_read(event) == IF loop_control(event) = "break" THEN "shutdown" ELSE "read"

----------------------------------------------------------------------------
(* run_rustpython: the choice of the execution strategy *)

\* the dispatch with the order of create_settings: script, then -m, then -c
select_mode_script_first(mt) ==
    IF IsSome(value_of(mt, "script")) THEN "Script"
    ELSE IF IsSome(value_of(mt, "m")) THEN "Module"
    ELSE IF IsSome(value_of(mt, "c")) THEN "Command"
    ELSE "Interactive"

select_mode(mt) ==
    IF IsSome(value_of(mt, "c")) THEN "Command"
    ELSE IF IsSome(value_of(mt, "m")) THEN "Module"
    ELSE IF IsSome(value_of(mt, "script")) THEN "Script"
    ELSE "Interactive"

----------------------------------------------------------------------------
(* Inputs of a launch *)

FlagNames == {"debug", "inspect", "no-site", "no-user-site", "quiet",
              "dont-write-bytecode", "ignore-environment"}

EnvNames == {"RUSTPYTHONPATH", "PYTHONPATH", "PYTHONDEBUG", "PYTHONINSPECT",
             "PYTHONOPTIMIZE", "PYTHONVERBOSE", "PYTHONNOUSERSITE",
             "PYTHONDONTWRITEBYTECODE"}

ScriptNames == { T("f.py"), T("d"), <<"d", Sep>>, <<"d", Sep, "__main__.py">>, T("nope") }

CValues == { <<>>, <<SrcOk>>, <<SrcSyntax>>, <<SrcRaise, T("arg")>> }

MValues == { <<>>, <<T("mod")>>, <<T("mod"), T("arg")>> }

ScriptValues == { <<>> } \cup { <<n>> : n \in ScriptNames } \cup { <<T("d"), T("arg")>> }

\* the flags of a command line: all absent, or all present (with -E)
FlagSets == { [f \in FlagNames |-> b] @@ [optimize |-> n, verbose |-> n] :
                  <<b, n>> \in { <<FALSE, 0>>, <<TRUE, MaxCount>> } }

MatchesSet == { [c |-> cv, m |-> mv, script |-> sv] @@ fl :
                    cv \in CValues, mv \in MValues, sv \in ScriptValues, fl \in FlagSets }

EnvUnset == [n \in EnvNames |-> NoneV]

EnvSet == [n \in EnvNames |->
             IF n = "RUSTPYTHONPATH" THEN Some(<<"a", ":", "b">>)
             ELSE IF n = "PYTHONPATH" THEN Some(<<"c">>)
             ELSE IF n = "PYTHONOPTIMIZE" THEN Some(<<"2">>)
             ELSE IF n = "PYTHONVERBOSE" THEN Some(<<"x">>)
             ELSE Some(<<>>)]

EnvBad == [EnvUnset EXCEPT !["PYTHONPATH"] = Some(<<"c", ":", BadByte>>)]

Envs == {EnvUnset, EnvSet, EnvBad}

BuildPaths == { NoneV, Some(<<"l">>) }

NoEntry == [kind |-> "none", source |-> <<>>, readable |-> FALSE]

DirEntry == [kind |-> "dir", source |-> <<>>, readable |-> FALSE]

FileEntry(src, rd) == [kind |-> "file", source |-> src, readable |-> rd]

FPath == << T("f.py") >>

DPath == << T("d") >>

DMainPath == << T("d"), MainFile >>

MainEntries == {NoEntry, DirEntry, FileEntry(SrcOk, FALSE)}
                   \cup { FileEntry(src, TRUE) : src \in Sources }

\* the file systems of the model: f.py is a file; d is a directory, a file or
\* missing; d/__main__.py exists only inside the directory d
FileSystems ==
    { (FPath :> FileEntry(SrcOk, TRUE)) @@ (DPath :> d) @@ (DMainPath :> mn) :
        <<d, mn>> \in ({DirEntry} \X MainEntries)
                          \cup ({FileEntry(SrcRaise, TRUE), NoEntry} \X {NoEntry}) }

DefaultFs == (FPath :> FileEntry(SrcOk, TRUE)) @@ (DPath :> NoEntry) @@ (DMainPath :> NoEntry)

HistFiles == { NoneV, Some(<< <<"o">> >>) }

\* neither -c nor -m nor a script: the launch of an interactive session
IsInteractive(mt) == mt["c"] = <<>> /\ mt["m"] = <<>> /\ mt["script"] = <<>>

\* the launches of the model.  An input varies in the launches that read it:
\* the file system where a script is given, the history file in interactive
\* launches; interactive launches vary the session, not the command-line
\* flags and the environment.
Launches ==
    { l \in [matches : MatchesSet, env : Envs, buildpath : BuildPaths,
             fs : FileSystems, histfile : HistFiles] :
        /\ l.matches["script"] = <<>> => l.fs = DefaultFs
        /\ ~IsInteractive(l.matches) => l.histfile = NoneV
        /\ IsInteractive(l.matches)
              => (l.env = EnvUnset /\ ~l.matches["ignore-environment"]) }

Lines == { <<>>, <<"a">>, <<"a", " ">>, OnePlusOne }

NoIteration ==
    [event |-> "none", line |-> <<>>, was |-> FALSE, prev |-> <<>>,
     compiled |-> "none", value |-> "none", submitted |-> NoneV,
     result |-> "none", exc |-> NoExc, ran |-> FALSE, nrep |-> 0]

\* the record of an iteration that read `event` and whose step returned r
Iteration(event, line, compiled, ran, r) ==
    [event     |-> event,
     line      |-> line,
     was       |-> continuing,
     prev      |-> input,
     compiled  |-> IF IsSome(r.submitted) THEN compiled ELSE "none",
     value     |-> IF IsSome(r.submitted) /\ compiled = "Code" THEN ran ELSE "none",
     submitted |-> r.submitted,
     result    |-> r.result,
     exc       |-> r.exc,
     ran       |-> r.executed # <<>>,
     nrep      |-> Len(print_if_err(reported, r.exc)) - Len(reported)]

EmptyScope == [file |-> NoneV, underscore |-> NoneV]

NoRes == [result |-> "none", exc |-> NoExc]

EmptySettings == create_settings([c |-> <<>>, m |-> <<>>, script |-> <<>>]
                                     @@ [f \in FlagNames |-> FALSE]
                                     @@ [optimize |-> 0, verbose |-> 0], EnvUnset)

----------------------------------------------------------------------------
(* The state machine *)

Init ==
    /\ pc = "main"
    /\ \E l \in Launches :
          /\ matches = l.matches
          /\ env = l.env
          /\ buildpath = l.buildpath
          /\ fs = l.fs
          /\ histfile = l.histfile
    /\ settings = EmptySettings
    /\ sys_path = <<>>
    /\ scope = EmptyScope
    /\ invoked = <<>>
    /\ executed = <<>>
    /\ errlog = <<>>
    /\ reported = <<>>
    /\ res = NoRes
    /\ exitCode = Running
    /\ input = <<>>
    /\ continuing = FALSE
    /\ history = <<>>
    /\ saves = 0
    /\ iter = 0
    /\ last = NoIteration

\* main: create_settings and VirtualMachine::new; sys.path starts as path_list
Main ==
    /\ pc = "main"
    /\ IF create_settings_panics(matches, env)
       THEN /\ pc' = "exited"
            /\ exitCode' = PanicStatus
            /\ UNCHANGED << settings, sys_path >>
       ELSE /\ pc' = "startup"
            /\ settings' = create_settings(matches, env)
            /\ sys_path' = create_settings(matches, env).path_list
            /\ UNCHANGED exitCode
    /\ UNCHANGED << matches, env, buildpath, fs, scope, invoked, executed, errlog,
                    reported, res, input, continuing, history, histfile, saves,
                    iter, last >>

RECURSIVE insert_all(_, _, _)
\* `for (i, path) in split_paths(paths).enumerate() { sys_path.insert(i, path) }`
insert_all(spath, paths, i) ==
    IF i >= Len(paths) THEN spath
    ELSE insert_all(InsertAt(spath, i, paths[i + 1]), paths, i + 1)

\* run_rustpython before the dispatch: importlib, build-time paths, the
\* __main__ scope and module, the import of site
Startup(ok) ==
    /\ pc = "startup"
    /\ IF ok
       THEN /\ pc' = "dispatch"
            /\ sys_path' = IF IsSome(buildpath)
                           THEN insert_all(sys_path, split_paths(Unwrap(buildpath)), 0)
                           ELSE sys_path
            /\ UNCHANGED res
       ELSE /\ pc' = "handle"
            /\ res' = [result |-> "Err", exc |-> "ImportError"]
            /\ UNCHANGED sys_path
    /\ scope' = EmptyScope
    /\ UNCHANGED << matches, env, buildpath, fs, settings, invoked, executed, errlog,
                    reported, exitCode, input, continuing, history, histfile, saves,
                    iter, last >>

\* run_rustpython: `run_command(&vm, scope, command.to_string())?`
RunCommand ==
    /\ pc = "dispatch"
    /\ select_mode(matches) = "Command"
    /\ LET r == run_command(scope, Unwrap(value_of(matches, "c")))
       IN  /\ scope' = r.scope
           /\ executed' = executed \o r.executed
           /\ res' = [result |-> r.result, exc |-> r.exc]
    /\ invoked' = Append(invoked, "Command")
    /\ pc' = "handle"
    /\ UNCHANGED << matches, env, buildpath, fs, settings, sys_path, errlog, reported,
                    exitCode, input, continuing, history, histfile, saves, iter, last >>

\* run_rustpython: `run_module(&vm, module)?`; runpy runs the module or raises
RunModule(ok) ==
    /\ pc = "dispatch"
    /\ select_mode(matches) = "Module"
    /\ res' = IF ok THEN [result |-> "Ok", exc |-> NoExc]
              ELSE [result |-> "Err", exc |-> "Exception"]
    /\ executed' = Append(executed, Unwrap(value_of(matches, "m")))
    /\ invoked' = Append(invoked, "Module")
    /\ pc' = "handle"
    /\ UNCHANGED << matches, env, buildpath, fs, settings, sys_path, scope, errlog,
                    reported, exitCode, input, continuing, history, histfile, saves,
                    iter, last >>

\* run_rustpython: `run_script(&vm, scope, filename)?`
RunScript ==
    /\ pc = "dispatch"
    /\ select_mode(matches) = "Script"
    /\ LET r == run_script(fs, sys_path, scope, Unwrap(value_of(matches, "script")))
       IN  /\ sys_path' = r.sys_path
           /\ scope' = r.scope
           /\ executed' = executed \o r.executed
           /\ IF r.exit
              THEN /\ errlog' = Append(errlog, r.msg)
                   /\ exitCode' = 1
                   /\ pc' = "exited"
                   /\ UNCHANGED res
              ELSE /\ res' = [result |-> r.result, exc |-> r.exc]
                   /\ pc' = "handle"
                   /\ UNCHANGED << errlog, exitCode >>
    /\ invoked' = Append(invoked, "Script")
    /\ UNCHANGED << matches, env, buildpath, fs, settings, reported, input, continuing,
                    history, histfile, saves, iter, last >>

\* Editor::load_history: the entries of the file, in order; an error (and no
\* entries) when the file is missing or cannot be read
load_history(file, readable) ==
    IF IsSome(file) /\ readable THEN [ok |-> TRUE, entries |-> Unwrap(file)]
    ELSE [ok |-> FALSE, entries |-> <<>>]

\* Editor::add_history_entry: the entry goes to the end of the history
add_history_entry(hist, entry) == Append(hist, entry)

\* Editor::save_history: the file holds the entries of the history, in order
save_history(hist) == Some(hist)

\* run_shell up to the loop: the history directory is created when the file
\* is missing (a failure panics), then the history is loaded (a failure is
\* only announced)
RunShell(mkdir_ok, load_ok) ==
    /\ pc = "dispatch"
    /\ select_mode(matches) = "Interactive"
    /\ invoked' = Append(invoked, "Interactive")
    /\ IF ~IsSome(histfile) /\ ~mkdir_ok
       THEN /\ pc' = "exited"
            /\ exitCode' = PanicStatus
            /\ UNCHANGED history
       ELSE /\ pc' = "read"
            /\ history' = load_history(histfile, load_ok).entries
            /\ UNCHANGED exitCode
    /\ input' = <<>>
    /\ continuing' = FALSE
    /\ UNCHANGED << matches, env, buildpath, fs, settings, sys_path, scope, executed,
                    errlog, reported, res, histfile, saves, iter, last >>

\* one iteration of the loop in which repl.readline returns Ok(line);
\* compiled and ran are what the compiler and the interpreter answer if the
\* iteration submits its buffer
ReadLine(line, compiled, ran) ==
    /\ pc = "read"
    /\ iter < MaxIter
    /\ LET r == read_line_step(input, continuing, scope, line, compiled, ran)
       IN  /\ IsSome(r.submitted) => <<compiled, ran>> \in vm_single(Unwrap(r.submitted))
           /\ history' = add_history_entry(history, trim_end(line))
           /\ input' = r.input
           /\ continuing' = r.continuing
           /\ scope' = r.scope
           /\ executed' = executed \o r.executed
           /\ reported' = print_if_err(reported, r.exc)
           /\ last' = Iteration("line", line, compiled, ran, r)
    /\ pc' = after_read("line")
    /\ iter' = iter + 1
    /\ UNCHANGED << matches, env, buildpath, fs, settings, sys_path, invoked,
                    errlog, res, exitCode, histfile, saves >>

\* one iteration in which repl.readline returns Err(Interrupted)
ReadInterrupted ==
    /\ pc = "read"
    /\ iter < MaxIter
    /\ LET r == read_interrupted_step(input, continuing, scope)
       IN  /\ input' = r.input
           /\ continuing' = r.continuing
           /\ scope' = r.scope
           /\ executed' = executed \o r.executed
           /\ reported' = print_if_err(reported, r.exc)
           /\ last' = Iteration("interrupt", <<>>, "none", "none", r)
    /\ pc' = after_read("interrupt")
    /\ iter' = iter + 1
    /\ UNCHANGED << matches, env, buildpath, fs, settings, sys_path, invoked,
                    errlog, res, exitCode, history, histfile, saves >>

\* repl.readline returns Err(Eof): break
ReadEof ==
    /\ pc = "read"
    /\ pc' = after_read("eof")
    /\ last' = [NoIteration EXCEPT !.event = "eof", !.was = continuing, !.prev = input]
    /\ UNCHANGED << matches, env, buildpath, fs, settings, sys_path, scope, invoked,
                    executed, errlog, reported, res, exitCode, input, continuing,
                    history, histfile, saves, iter >>

\* repl.readline returns any other error: it is printed, then break
ReadError ==
    /\ pc = "read"
    /\ pc' = after_read("error")
    /\ errlog' = Append(errlog, T("Readline error"))
    /\ last' = [NoIteration EXCEPT !.event = "error", !.was = continuing, !.prev = input]
    /\ UNCHANGED << matches, env, buildpath, fs, settings, sys_path, scope, invoked,
                    executed, reported, res, exitCode, input, continuing, history,
                    histfile, saves, iter >>

\* `repl.save_history(&repl_history_path).unwrap(); Ok(())`
SaveHistory(ok) ==
    /\ pc = "shutdown"
    /\ saves' = saves + 1
    /\ IF ok
       THEN /\ histfile' = save_history(history)
            /\ res' = [result |-> "Ok", exc |-> NoExc]
            /\ pc' = "handle"
            /\ UNCHANGED exitCode
       ELSE /\ pc' = "exited"
            /\ exitCode' = PanicStatus
            /\ UNCHANGED << histfile, res >>
    /\ UNCHANGED << matches, env, buildpath, fs, settings, sys_path, scope, invoked,
                    executed, errlog, reported, input, continuing, history, iter, last >>

\* main: handle_exception(&vm, res), then the return from main
HandleException ==
    /\ pc = "handle"
    /\ IF res.result = "Err"
       THEN /\ reported' = Append(reported, res.exc)
            /\ exitCode' = 1
       ELSE /\ exitCode' = 0
            /\ UNCHANGED reported
    /\ pc' = "exited"
    /\ UNCHANGED << matches, env, buildpath, fs, settings, sys_path, scope, invoked,
                    executed, errlog, res, input, continuing, history, histfile,
                    saves, iter, last >>

Next ==
    \/ Main
    \/ \E ok \in BOOLEAN : Startup(ok)
    \/ RunCommand
    \/ \E ok \in BOOLEAN : RunModule(ok)
    \/ RunScript
    \/ \E mkdir_ok \in BOOLEAN, load_ok \in BOOLEAN : RunShell(mkdir_ok, load_ok)
    \/ \E line \in Lines, compiled \in CompileOutcomes, ran \in RunOutcomes :
           ReadLine(line, compiled, ran)
    \/ ReadInterrupted
    \/ ReadEof
    \/ ReadError
    \/ \E ok \in BOOLEAN : SaveHistory(ok)
    \/ HandleException

Spec == Init /\ [][Next]_vars

TypeOK ==
    /\ pc \in {"main", "startup", "dispatch", "read", "shutdown", "handle", "exited"}
    /\ continuing \in BOOLEAN
    /\ iter \in 0..MaxIter
    /\ exitCode \in {Running, 0, 1, PanicStatus}
    /\ (pc = "exited") = (exitCode # Running)

----------------------------------------------------------------------------
(* Settings resolution over a wider range of command lines and environments *)

\* the flags of a command line, each present or absent on its own (the two
\* flags that have no environment variable go together)
SettingsFlags == { fl \in [FlagNames -> BOOLEAN] : fl["no-site"] = fl["quiet"] }

\* repetitions of -O / -v: none, a few, and one more than a u8 holds
LevelCounts == (0..MaxCount) \cup {U8Max + 1}

SettingsMatches ==
    { [c |-> <<>>, m |-> <<>>, script |-> <<T("f.py")>>] @@ fl
          @@ [optimize |-> o, verbose |-> v] :
        fl \in SettingsFlags, o \in LevelCounts, v \in LevelCounts }

BoolVariables == {"PYTHONDEBUG", "PYTHONINSPECT", "PYTHONNOUSERSITE",
                  "PYTHONDONTWRITEBYTECODE"}

\* the variables that stand for a flag: all unset, all set to the empty
\* string, two of them set to "0"
BoolEnvs ==
    { [n \in BoolVariables |-> NoneV],
      [n \in BoolVariables |-> Some(<<>>)],
      [n \in BoolVariables |->
          IF n \in {"PYTHONDEBUG", "PYTHONNOUSERSITE"} THEN Some(<<"0">>) ELSE NoneV] }

\* the variables that stand for a level: unset, a number, text that is not
\* a number, a number too large for a u8, bytes that are not unicode
LevelEnvs ==
    { [PYTHONOPTIMIZE |-> o, PYTHONVERBOSE |-> v] :
        o \in { NoneV, Some(<<"2">>), Some(<<"x">>), Some(<<"3", "0", "0">>),
                Some(<<BadByte>>) },
        v \in { NoneV, Some(<<>>), Some(<<"2", "5", "5">>) } }

\* the path lists: unset, several segments, a repeated and an empty segment,
\* a segment that is not unicode
PathEnvs ==
    { [RUSTPYTHONPATH |-> r, PYTHONPATH |-> p] :
        r \in { NoneV, Some(<<"a", ":", "b">>) },
        p \in { NoneV, Some(<<"c", ":", "a", ":">>), Some(<<"c", ":", BadByte>>) } }

SettingsEnvs == { b @@ l @@ p : b \in BoolEnvs, l \in LevelEnvs, p \in PathEnvs }

InitSettings ==
    /\ pc = "main"
    /\ matches \in SettingsMatches
    /\ env \in SettingsEnvs
    /\ buildpath = NoneV
    /\ fs = DefaultFs
    /\ histfile = NoneV
    /\ settings = EmptySettings
    /\ sys_path = <<>>
    /\ scope = EmptyScope
    /\ invoked = <<>>
    /\ executed = <<>>
    /\ errlog = <<>>
    /\ reported = <<>>
    /\ res = NoRes
    /\ exitCode = Running
    /\ input = <<>>
    /\ continuing = FALSE
    /\ history = <<>>
    /\ saves = 0
    /\ iter = 0
    /\ last = NoIteration

\* create_settings is the first thing main does
NextSettings == Main

SpecSettings == InitSettings /\ [][NextSettings]_vars

----------------------------------------------------------------------------
(* The interactive loop: properties *)

NL == <<"\n">>

\* the latest iteration read a line
ReadALine == last.event = "line"

\* the latest iteration read an empty line in Continuation
ContinuationEmptyLine == ReadALine /\ last.was /\ last.line = <<>>

\* the latest iteration read a non-empty line in Fresh and the compiler
\* reported incomplete input
FreshIncomplete ==
    ReadALine /\ ~last.was /\ last.line # <<>> /\ last.compiled = "EOF"

\* C1 as stated: after an empty line in Continuation, an incomplete-input
\* answer of the compiler does not lead back to Continuation: the state is
\* Fresh, the buffer is gone and the outcome has been reported.
C1_IncompleteAfterStopIsTerminal ==
    (ContinuationEmptyLine /\ last.compiled = "EOF")
        => (~continuing /\ input = <<>> /\ last.nrep = 1)

\* C1 as the code has it: an empty line read in Continuation makes the
\* iteration submit the accumulated buffer to the compiler; if the compiler
\* reports incomplete input the session is in Continuation again with the
\* buffer intact and nothing executed or reported, and the loop goes on;
\* with any other answer the session is Fresh.
C1_IncompleteAfterStopContinues ==
    ContinuationEmptyLine
        => /\ IsSome(last.submitted)
           /\ Unwrap(last.submitted) = last.prev \o NL
           /\ (last.compiled = "EOF"
                  => /\ continuing
                     /\ input = Unwrap(last.submitted)
                     /\ ~last.ran
                     /\ last.nrep = 0
                     /\ pc = "read")
           /\ (last.compiled # "EOF" => (~continuing /\ input = <<>>))

\* an empty line in Continuation was answered with incomplete input
C1_Witness == ContinuationEmptyLine /\ last.compiled = "EOF" /\ continuing

\* C2 as stated: every line read, in Fresh and in Continuation alike, has the
\* accumulated buffer submitted to the compiler in the same iteration; a
\* buffer that compiles is executed and a syntax error is reported in it.
C2_EveryLineIsCompiled ==
    ReadALine
        => /\ IsSome(last.submitted)
           /\ Unwrap(last.submitted) = last.prev \o last.line \o NL
           /\ (last.compiled = "Code" => last.ran)
           /\ (last.compiled = "Other" => last.nrep = 1)

\* C2 as the code has it: the accumulated buffer is submitted to the compiler
\* in the iteration of a line read in Fresh and of an empty line read in
\* Continuation (a buffer that compiles is executed in that iteration, a
\* syntax error is reported in it); a non-empty line read in Continuation is
\* only appended to the buffer: nothing is compiled, executed or reported and
\* the session stays in Continuation.
C2_CompiledUnlessContinuing ==
    ReadALine
        => /\ IsSome(last.submitted) <=> (~last.was \/ last.line = <<>>)
           /\ IsSome(last.submitted)
                 => /\ Unwrap(last.submitted) = last.prev \o last.line \o NL
                    /\ (last.compiled = "Code"
                           => /\ last.ran
                              /\ executed # <<>>
                              /\ Last(executed) = Unwrap(last.submitted))
                    /\ (last.compiled = "Other"
                           => /\ last.nrep = 1
                              /\ reported # <<>>
                              /\ Last(reported) = "SyntaxError")
           /\ ~IsSome(last.submitted)
                 => /\ continuing
                    /\ input = last.prev \o last.line \o NL
                    /\ ~last.ran
                    /\ last.nrep = 0

\* a non-empty line was read in Continuation
C2_Witness == ReadALine /\ last.was /\ last.line # <<>> /\ last.prev # <<>>

\* C3, first part: a non-empty line read in Fresh for which the compiler
\* reports incomplete input leaves the session in Continuation with the
\* buffer intact, nothing executed and nothing reported.
C3_FreshIncompleteContinues ==
    FreshIncomplete
        => /\ continuing
           /\ input = last.prev \o last.line \o NL
           /\ input = Unwrap(last.submitted)
           /\ ~last.ran
           /\ last.nrep = 0
           /\ pc = "read"

\* C3, second part: an empty line read right after such an iteration has the
\* accumulated buffer submitted to the compiler in its own iteration.
C3_EmptyLineNextCompiles ==
    (FreshIncomplete /\ iter' = iter + 1 /\ last'.event = "line" /\ last'.line = <<>>)
        => /\ IsSome(last'.submitted)
           /\ Unwrap(last'.submitted) = input \o NL

\* C3: in Fresh, a non-empty line with incomplete input moves the session to
\* Continuation with the buffer intact and nothing executed or reported, and
\* an empty line read immediately afterwards triggers a compile attempt on
\* the accumulated buffer in that iteration.
C3_HeaderThenEmptyLine ==
    [](C3_FreshIncompleteContinues) /\ [][C3_EmptyLineNextCompiles]_vars

\* the second line of a session is empty and follows a header read in Fresh
C3_Witness ==
    /\ iter = 2
    /\ ContinuationEmptyLine
    /\ last.prev = <<"a">> \o NL
    /\ IsSome(last.submitted)

\* the latest iteration ended in a syntax error or in an exception of the
\* executed unit
IterationFailed ==
    /\ ReadALine
    /\ \/ last.compiled = "Other"
       \/ last.compiled = "Code" /\ last.value = "Exception"

\* C4: a compile failure other than incomplete input and an exception raised
\* by the executed unit each clear the buffer, return the session to Fresh,
\* are reported exactly once through the exception printer, and leave the
\* loop and the process running.
C4_ErrorsEndTheIterationOnly ==
    IterationFailed
        => /\ last.result = "PyErr"
           /\ last.exc = (IF last.compiled = "Other" THEN "SyntaxError" ELSE "Exception")
           /\ input = <<>>
           /\ ~continuing
           /\ last.nrep = 1
           /\ reported # <<>>
           /\ Last(reported) = last.exc
           /\ pc = "read"
           /\ exitCode = Running

\* a buffer accumulated in Continuation ended in an error
C4_Witness == IterationFailed /\ last.was /\ last.prev # <<>>

\* C5: an interrupt of the read, in Fresh or in Continuation, clears the
\* buffer, forces Fresh, reports one KeyboardInterrupt and leaves the loop
\* running.
C5_InterruptReturnsToFresh ==
    last.event = "interrupt"
        => /\ input = <<>>
           /\ ~continuing
           /\ last.nrep = 1
           /\ reported # <<>>
           /\ Last(reported) = "KeyboardInterrupt"
           /\ pc = "read"
           /\ exitCode = Running

\* a read was interrupted in Continuation, with a pending buffer
C5_Witness == last.event = "interrupt" /\ last.was /\ last.prev # <<>>

\* C6, states: the history is saved at most once, never inside the loop, and
\* a session that a read ended has made its one call of save_history by the
\* time run_shell is over.
C6_SavedOnceAfterTheLoop ==
    /\ saves <= 1
    /\ pc = "read" => saves = 0
    /\ pc = "shutdown" => (last.event \in {"eof", "error"} /\ saves = 0)
    /\ (last.event \in {"eof", "error"} /\ pc \in {"handle", "exited"}) => saves = 1

\* C6, steps: a read that signals end of input or fails ends the loop at
\* once, with nothing compiled, executed or reported and the state, buffer
\* and history untouched; the step after the loop is the save; a read that
\* returns a line or an interrupt stays in the loop.
C6_ReadEndsOrStays ==
    /\ (pc = "read" /\ last'.event \in {"eof", "error"})
          => /\ pc' = "shutdown"
             /\ UNCHANGED << executed, reported, scope, input, continuing, history, saves >>
    /\ (pc = "read" /\ last'.event \in {"line", "interrupt"}) => pc' = "read"
    /\ pc = "shutdown"
          => /\ saves' = saves + 1
             /\ pc' \in {"handle", "exited"}
             /\ UNCHANGED << executed, reported >>

\* C6: end of input and every other read failure end the loop immediately,
\* in either state and with any pending buffer, and reach the history save,
\* which is made exactly once; lines and interrupts never leave the loop.
C6_EofEndsSession == [](C6_SavedOnceAfterTheLoop) /\ [][C6_ReadEndsOrStays]_vars

\* end of input arrived in Continuation with a pending buffer, and the
\* history has been saved
C6_Witness == last.event = "eof" /\ last.was /\ last.prev # <<>> /\ saves = 1

----------------------------------------------------------------------------
(* The dispatcher: properties *)

\* the mode the precedence Command > Module > Script > Interactive gives
ExpectedMode ==
    IF matches["c"] # <<>> THEN "Command"
    ELSE IF matches["m"] # <<>> THEN "Module"
    ELSE IF matches["script"] # <<>> THEN "Script"
    ELSE "Interactive"

\* the process ended before run_rustpython reached the dispatch
StoppedBeforeDispatch ==
    create_settings_panics(matches, env) \/ res.exc = "ImportError"

\* C7: whatever the presence of -c, -m and a positional script, the
\* dispatcher invokes exactly one strategy, the one of the precedence
\* Command > Module > Script > Interactive.
C7_ExactlyOneStrategy ==
    /\ Len(invoked) <= 1
    /\ pc \in {"main", "startup", "dispatch"} => invoked = <<>>
    /\ (pc \in {"read", "shutdown", "handle", "exited"} /\ ~StoppedBeforeDispatch)
          => invoked = <<ExpectedMode>>

\* -c, -m and a script were all given and the command was run
C7_Witness ==
    /\ matches["c"] # <<>>
    /\ matches["m"] # <<>>
    /\ matches["script"] # <<>>
    /\ invoked = <<"Command">>
    /\ pc = "exited"

\* the argv of a mode, as section 4.1 of the specification gives it
ArgvOfMode(mode) ==
    IF mode = "Command" THEN <<T("-c")>> \o Tail(matches["c"])
    ELSE IF mode = "Module" THEN <<T("PLACEHOLDER")>> \o Tail(matches["m"])
    ELSE IF mode = "Script" THEN matches["script"]
    ELSE <<>>

\* C8 as stated: whatever the presence of -c, -m and a positional script,
\* the resolved argv has the shape of the mode the dispatcher selects.
C8_ArgvHasShapeOfSelectedMode ==
    (pc # "main" /\ ~create_settings_panics(matches, env))
        => settings.argv = ArgvOfMode(select_mode(matches))

\* the positional script of the launch
ScriptArg == matches["script"][1]

\* the name of the __main__.py of a directory
DirectMain(dir) == StripSeps(dir) \o <<Sep>> \o MainFile

\* sys.path as run_rustpython leaves it before the dispatch
StartupPath ==
    IF IsSome(buildpath)
    THEN insert_all(settings.path_list, split_paths(Unwrap(buildpath)), 0)
    ELSE settings.path_list

\* run_script went on with the file f: its directory is at the front of
\* sys.path, neither fatal message of the resolution was written, and the
\* file was read and, if it compiles, bound to __file__ and executed
ScriptRan(f) ==
    /\ Len(sys_path) = Len(StartupPath) + 1
    /\ Tail(sys_path) = StartupPath
    /\ IF read_file(fs, f).ok
       THEN /\ errlog = <<>>
            /\ IF vm_compile_exec(read_file(fs, f).source) = "Ok"
               THEN /\ executed = <<read_file(fs, f).source>>
                    /\ scope.file = Some(f)
               ELSE executed = <<>> /\ scope.file = NoneV
       ELSE /\ errlog = <<MsgReadFailed(f)>>
            /\ exitCode = 1
            /\ executed = <<>>

\* run_script ended the process with the message msg and did nothing else
ScriptFatal(msg) ==
    /\ pc = "exited"
    /\ exitCode = 1
    /\ errlog = <<msg>>
    /\ executed = <<>>
    /\ reported = <<>>
    /\ scope = EmptyScope
    /\ sys_path = StartupPath

\* C9: the script path resolves into exactly one of four outcomes: a regular
\* file is run; a directory with a regular file __main__.py runs that file;
\* a directory without it ends the process with status 1 and the message
\* about the missing __main__ module; a path that is neither ends it with
\* status 1 and the message "No such file or directory"; the two messages
\* differ, and a fatal outcome executes nothing and leaves sys.path alone.
C9_ScriptResolution ==
    invoked = <<"Script">>
        => /\ is_file(fs, ScriptArg) => ScriptRan(ScriptArg)
           /\ (is_dir(fs, ScriptArg) /\ is_file(fs, DirectMain(ScriptArg)))
                 => ScriptRan(DirectMain(ScriptArg))
           /\ (is_dir(fs, ScriptArg) /\ ~is_file(fs, DirectMain(ScriptArg)))
                 => ScriptFatal(T("can't find '__main__' module in '")
                                   \o ScriptArg \o T("'"))
           /\ (~is_file(fs, ScriptArg) /\ ~is_dir(fs, ScriptArg))
                 => ScriptFatal(T("can't open file '") \o ScriptArg
                                   \o T("': No such file or directory"))

\* the script was a directory without __main__.py
C9_Witness ==
    /\ invoked = <<"Script">>
    /\ is_dir(fs, ScriptArg)
    /\ ~is_file(fs, DirectMain(ScriptArg))
    /\ exitCode = 1

\* C10: run_script on a directory that holds a regular file __main__.py gets
\* past the resolution and does what run_script on that file does: the same
\* file path, the same directory put at the front of sys.path, the same
\* __file__, the same source executed, the same result.
C10_DirectoryRunsItsMain ==
    \A dir \in ScriptNames :
        (is_dir(fs, dir) /\ is_file(fs, DirectMain(dir)))
            => LET via == run_script(fs, sys_path, scope, dir)
                   direct == run_script(fs, sys_path, scope, DirectMain(dir))
               IN  /\ ~resolve_script(fs, dir).exit
                   /\ via.file_path = DirectMain(dir)
                   /\ via.file_path = direct.file_path
                   /\ via.sys_path = <<StripSeps(dir)>> \o sys_path
                   /\ via.sys_path = direct.sys_path
                   /\ via.scope = direct.scope
                   /\ via.executed = direct.executed
                   /\ via.result = direct.result
                   /\ via = direct
                   /\ (via.executed # <<>>
                          => /\ via.scope.file = Some(DirectMain(dir))
                             /\ via.executed = <<fs[DMainPath].source>>)

\* the script was a directory, named with a trailing separator, and its
\* __main__.py ran to the end
C10_Witness ==
    /\ invoked = <<"Script">>
    /\ ScriptArg = <<"d", Sep>>
    /\ is_dir(fs, ScriptArg)
    /\ scope.file = Some(DirectMain(ScriptArg))
    /\ sys_path = <<T("d")>> \o StartupPath
    /\ res.result = "Ok"
    /\ exitCode = 0

----------------------------------------------------------------------------
(* The exit status *)

\* the interactive session was ended by end-of-input and the process is gone
EndedByEof == invoked = <<"Interactive">> /\ last.event = "eof" /\ pc = "exited"

\* C11: the exit status: a dispatch that returned success ends the process
\* with status 0; a failure that came out of the command, the module or the
\* script is reported once and ends it with status 1; an interactive session
\* ended by end-of-input ends with status 0 however many exceptions its loop
\* reported.
C11_ExitStatus ==
    /\ (pc = "exited" /\ res.result = "Ok") => exitCode = 0
    /\ (pc = "exited" /\ res.result = "Err" /\ invoked # <<>>)
          => (exitCode = 1 /\ reported = <<res.exc>>)
    /\ EndedByEof => exitCode = 0

----------------------------------------------------------------------------
(* Settings resolution: properties *)

\* create_settings has returned
Resolved == pc # "main" /\ exitCode # PanicStatus

EnvIgnored == matches["ignore-environment"]

\* C12: an explicit flag wins over the environment: when the flag of debug,
\* inspect, no-user-site or dont-write-bytecode is present the setting is
\* true whatever the environment holds; when -O (resp. -v) is present the
\* level is the number of its repetitions whatever the value of
\* PYTHONOPTIMIZE (resp. PYTHONVERBOSE).
C12_FlagWinsOverEnvironment ==
    Resolved
        => /\ matches["debug"] => settings.debug
           /\ matches["inspect"] => settings.inspect
           /\ matches["no-user-site"] => settings.no_user_site
           /\ matches["dont-write-bytecode"] => settings.dont_write_bytecode
           /\ matches["optimize"] > 0 => settings.optimize = matches["optimize"]
           /\ matches["verbose"] > 0 => settings.verbose = matches["verbose"]

\* -O was given once while PYTHONOPTIMIZE holds another number and the
\* environment is not ignored
C12_Witness ==
    /\ Resolved
    /\ ~EnvIgnored
    /\ matches["optimize"] = 1
    /\ env["PYTHONOPTIMIZE"] = Some(<<"2">>)
    /\ settings.optimize = 1
    /\ matches["debug"]
    /\ env["PYTHONDEBUG"] = Some(<<"0">>)
    /\ settings.debug

\* C13: with -E the resolved settings do not depend on the environment:
\* whatever the environment holds, create_settings returns what it returns
\* for the same command line in the empty environment and in the other
\* environments of Envs (so any two environments give identical settings):
\* path_list is exactly [""], each
\* boolean setting is the presence of its flag, each level is the number of
\* repetitions of its flag, and no path variable can make it panic.
C13_IgnoredEnvironmentHasNoEffect ==
    (EnvIgnored /\ pc # "main")
        => /\ \A e2 \in Envs :
                 create_settings_panics(matches, env) = create_settings_panics(matches, e2)
           /\ (exitCode = PanicStatus) = (matches["optimize"] > U8Max \/ matches["verbose"] > U8Max)
           /\ Resolved
                 => /\ \A e2 \in Envs : settings = create_settings(matches, e2)
                    /\ settings.ignore_environment
                    /\ settings.path_list = << <<>> >>
                    /\ settings.debug = matches["debug"]
                    /\ settings.inspect = matches["inspect"]
                    /\ settings.no_site = matches["no-site"]
                    /\ settings.no_user_site = matches["no-user-site"]
                    /\ settings.quiet = matches["quiet"]
                    /\ settings.dont_write_bytecode = matches["dont-write-bytecode"]
                    /\ settings.optimize = matches["optimize"]
                    /\ settings.verbose = matches["verbose"]

\* -E with an environment that sets every kind of variable, one of them to
\* a path list that is not unicode: the settings are those of the flags
C13_Witness ==
    /\ Resolved
    /\ EnvIgnored
    /\ env["PYTHONDEBUG"] = Some(<<>>)
    /\ env["PYTHONOPTIMIZE"] = Some(<<"2">>)
    /\ env["PYTHONPATH"] = Some(<<"c", ":", BadByte>>)
    /\ env["RUSTPYTHONPATH"] = Some(<<"a", ":", "b">>)
    /\ ~matches["debug"]
    /\ matches["optimize"] = 0
    /\ ~settings.debug
    /\ settings.optimize = 0
    /\ settings.path_list = << <<>> >>

\* the flags that count their repetitions, with their variable and setting
LevelFlags == {"optimize", "verbose"}

LevelVariable(flag) == IF flag = "optimize" THEN "PYTHONOPTIMIZE" ELSE "PYTHONVERBOSE"

LevelOf(flag) == IF flag = "optimize" THEN settings.optimize ELSE settings.verbose

\* text made of decimal digits only
IsNumber(v) == v # <<>> /\ \A i \in 1..Len(v) : IsDigit(v[i])

\* the level is left to the environment
LevelFromEnvironment(flag) == Resolved /\ ~EnvIgnored /\ matches[flag] = 0

Segments(name) == IF IsSome(env[name]) THEN split_paths(Unwrap(env[name])) ELSE <<>>

\* some segment of a path-list variable is not valid unicode
BadSegment ==
    \E name \in {"RUSTPYTHONPATH", "PYTHONPATH"} :
        \E i \in 1..Len(Segments(name)) : ~IsUnicode(Segments(name)[i])

\* C17: the resolved path_list has the empty string as its first entry;
\* when the environment is not ignored it is exactly [""], then the
\* segments of RUSTPYTHONPATH in order, then the segments of PYTHONPATH in
\* order, duplicates kept; when the environment is not ignored and a segment
\* is not valid unicode the process is aborted by create_settings, before
\* sys.path is set, a strategy is invoked or anything is executed.
C17_PathListOrder ==
    /\ Resolved
          => /\ settings.path_list[1] = <<>>
             /\ sys_path = settings.path_list
             /\ ~EnvIgnored
                   => /\ settings.path_list
                            = << <<>> >> \o Segments("RUSTPYTHONPATH") \o Segments("PYTHONPATH")
                      /\ ~BadSegment
    /\ (pc # "main" /\ ~EnvIgnored /\ BadSegment)
          => /\ pc = "exited"
             /\ exitCode = PanicStatus
             /\ sys_path = <<>>
             /\ invoked = <<>>
             /\ executed = <<>>

\* both variables are set, "a" is in both and PYTHONPATH ends with an empty
\* segment: all six entries are there, in order
C17_Witness ==
    /\ Resolved
    /\ ~EnvIgnored
    /\ env["RUSTPYTHONPATH"] = Some(<<"a", ":", "b">>)
    /\ env["PYTHONPATH"] = Some(<<"c", ":", "a", ":">>)
    /\ settings.path_list = << <<>>, <<"a">>, <<"b">>, <<"c">>, <<"a">>, <<>> >>

----------------------------------------------------------------------------
(* The history of the interactive session: properties *)

\* C15: no failure of the history input/output ends the process: the
\* session starts when the history file is missing, unreadable or corrupt
\* or its directory cannot be created, and when the save at the end of the
\* session fails run_shell still returns Ok; so an interactive launch never
\* ends with the panic status, and once save_history has been called
\* run_shell has returned Ok.
C15_HistoryFailuresAreNotFatal ==
    invoked = <<"Interactive">>
        => /\ exitCode # PanicStatus
           /\ saves = 1 => res.result = "Ok"

IsPrefix(s, t) == Len(s) <= Len(t) /\ SubSeq(t, 1, Len(s)) = s

\* entry is line without its trailing whitespace
IsTrimOf(entry, line) ==
    /\ IsPrefix(entry, line)
    /\ \A i \in (Len(entry) + 1)..Len(line) : IsWhitespace(line[i])
    /\ entry # <<>> => ~IsWhitespace(Last(entry))

----------------------------------------------------------------------------
(* The bindings of the session scope and sys.path: properties *)

\* the latest iteration executed its buffer and the value was not None
YieldedValue(it) ==
    it.event = "line" /\ it.compiled = "Code" /\ it.value \notin {"None", "Exception"}

\* the session read "1 + 1" and then an empty line, and nothing else
ExampleSession ==
    /\ pc = "read"
    /\ iter = 2
    /\ history \in { <<OnePlusOne, <<>> >>, << <<"o">>, OnePlusOne, <<>> >> }

\* C18: in an iteration of the loop whose buffer compiles and executes with a
\* value that is not None, "_" is bound to that value in the session scope,
\* the buffer is cleared and the state is Fresh; in every other iteration
\* (the value is None, an exception or a syntax error is reported, the
\* compiler asks for more input, the line only extends the buffer, the read
\* is interrupted) the binding of "_" is what it was.  After "1 + 1" and
\* then an empty line the state is Fresh, both buffers were executed,
\* nothing was reported and "_" is bound to 2.
C18_ResultNameBinding ==
    /\ [][ (pc = "read" /\ iter' = iter + 1)
              => IF YieldedValue(last')
                 THEN /\ scope'.underscore = Some(last'.value)
                      /\ last'.result = "Ok"
                      /\ input' = <<>>
                      /\ ~continuing'
                 ELSE scope'.underscore = scope.underscore ]_vars
    /\ [](ExampleSession
             => /\ ~continuing
                /\ input = <<>>
                /\ scope.underscore = Some("2")
                /\ executed = << OnePlusOne \o NL, NL >>
                /\ reported = <<>>)

\* "1 + 1" and then an empty line were read: "_" is bound to 2 and the empty
\* statement, whose value is None, has left it bound
C18_Witness ==
    /\ ExampleSession
    /\ last.line = <<>>
    /\ last.compiled = "Code"
    /\ last.value = "None"
    /\ scope.underscore = Some("2")
    /\ ~continuing

\* run_script found a file to run: the script itself or the __main__.py of
\* the directory
ScriptResolved ==
    is_file(fs, ScriptArg) \/ (is_dir(fs, ScriptArg) /\ is_file(fs, DirectMain(ScriptArg)))

\* the directory that contains the resolved file: the empty string for a
\* file named without a directory, the directory d for d/__main__.py
ContainingDir ==
    IF is_file(fs, ScriptArg) /\ ScriptArg \in {T("f.py"), T("d")} THEN <<>> ELSE T("d")

\* C19: once run_script has resolved the file, sys.path is the path of the
\* startup with the directory of the file put in front of it, once; this is
\* so whether the file could then be read, compiled and executed or not, and
\* in every later state of the process; when the resolution is fatal, and in
\* the launches that run a command, a module or the interactive session,
\* sys.path stays what it was when the dispatch began, to the end.
C19_OnlyScriptModeChangesSysPath ==
    /\ pc = "dispatch" => sys_path = StartupPath
    /\ (invoked = <<"Script">> /\ ScriptResolved)
          => sys_path = <<ContainingDir>> \o StartupPath
    /\ (invoked = <<"Script">> /\ ~ScriptResolved) => sys_path = StartupPath
    /\ (invoked # <<>> /\ invoked # <<"Script">>)
          => (invoked \in {<<"Command">>, <<"Module">>, <<"Interactive">>}
                 /\ sys_path = StartupPath)

\* the script is the directory d, its __main__.py is there but cannot be
\* read: the directory is on sys.path, in front of the build-time path
C19_Witness ==
    /\ invoked = <<"Script">>
    /\ ScriptArg = T("d")
    /\ is_dir(fs, ScriptArg)
    /\ errlog = <<MsgReadFailed(DirectMain(ScriptArg))>>
    /\ exitCode = 1
    /\ buildpath = Some(<<"l">>)
    /\ ~EnvIgnored
    /\ sys_path = << <<"d">>, <<"l">>, <<>> >>

\* C20: an iteration whose read is interrupted discards the pending input
\* and nothing else: the buffer is empty and the state Fresh afterwards,
\* while the history, the bindings of the session scope ("_" included),
\* sys.path and the history file are what they were; the iteration submits
\* nothing to the compiler and executes nothing, and the loop goes on.
C20_InterruptDiscardsOnlyTheBuffer ==
    [][ (pc = "read" /\ iter' = iter + 1 /\ last'.event = "interrupt")
           => /\ input' = <<>>
              /\ ~continuing'
              /\ history' = history
              /\ scope' = scope
              /\ sys_path' = sys_path
              /\ histfile' = histfile
              /\ executed' = executed
              /\ last'.submitted = NoneV
              /\ last'.compiled = "none"
              /\ ~last'.ran
              /\ pc' = "read" ]_vars

\* "1 + 1" bound "_", a second line left the session in Continuation with a
\* pending buffer, then the read was interrupted
C20_Witness ==
    /\ last.event = "interrupt"
    /\ last.was
    /\ last.prev # <<>>
    /\ input = <<>>
    /\ ~continuing
    /\ scope.underscore = Some("2")
    /\ Len(history) >= 2
    /\ pc = "read"

----------------------------------------------------------------------------
(* The prompt and the buffer: properties *)

\* the loop is about to call repl.readline
AtPrompt == pc = "read"

\* C21: whenever the loop is about to prompt for a line, the state is Fresh
\* exactly when the buffer is empty: after any sequence of lines, interrupts
\* and answers of the compiler and the interpreter, the primary prompt is
\* never shown with pending input and the secondary prompt is never shown
\* with an empty buffer; a pending buffer always ends with a newline.
C21_FreshIffBufferEmpty ==
    AtPrompt
        => /\ ~continuing <=> input = <<>>
           /\ continuing => Last(input) = "\n"

\* the third prompt of a session that read a line, then an empty line in
\* Continuation for which the compiler again asked for more input: the
\* secondary prompt is shown and the buffer holds both lines
C21_Witness ==
    /\ AtPrompt
    /\ iter = 2
    /\ ContinuationEmptyLine
    /\ last.compiled = "EOF"
    /\ continuing
    /\ Len(input) >= 3

====
